---- MODULE Spec2Model ----
(***************************************************************************)
(* A model of the request dispatcher of iuioiua/plain: route() of          *)
(* src/mod.ts, its earlier variants (the asynchronous route() and          *)
(* createHandler()), the HttpError class, the versions of the toHttpError  *)
(* normaliser, the documented error boundary, and the file responders      *)
(* serveFile() and serveDir().  SpecConcurrent runs several dispatches at  *)
(* once, interleaved at the promises they wait for.                        *)
(*                                                                         *)
(* JavaScript values are records with a "type" field.  A URL path is the   *)
(* sequence of its segments ("/foo/123" is <<"foo", "123">>, "/" is        *)
(* <<"">>, "/foo/" is <<"foo", "">>).                                      *)
(***************************************************************************)
EXTENDS Integers, Sequences, FiniteSets, TLC

VARIABLES
    routes,       \* the route table, built once at startup
    pc,           \* position of the dispatch in progress
    entry,        \* which dispatch function serves the request
    request,      \* the request being dispatched
    i,            \* index of the route the for-loop of route() is at
    match,        \* result of the last pattern.exec()
    consulted,    \* indexes of the routes whose pattern was executed
    calls,        \* log of handler invocations: function, arguments
    handlerExit,  \* how the invoked handler left: return value or throw
    promise,      \* state of the promise an asynchronous handler returned
    outcome,      \* what the dispatch function gave its caller
    ctor,         \* arguments and result of the last HttpError construction
    norm,         \* input and successive results of toHttpError
    rendered,     \* the error an error boundary rendered, and its response
    storage,      \* what the file system holds at the path being served
    fileInfo,     \* result of Deno.stat in the serveFile call in progress
    filePath,     \* path handed to serveFile
    ops,          \* log of the file system calls of the call in progress
    previous,     \* the last full response of serveFile to the file as it is
    handle,       \* the file Deno.open gave the call in progress, if any
    suspended     \* the dispatches in flight that wait for a promise

errorVars == <<ctor, norm, rendered>>

fileVars == <<storage, fileInfo, filePath, ops, previous, handle>>

vars == <<routes, pc, entry, request, i, match, consulted, calls,
          handlerExit, promise, outcome, errorVars, fileVars, suspended>>

dispatchVars == <<routes, pc, entry, request, i, match, consulted, calls,
                  handlerExit, promise, outcome>>

-----------------------------------------------------------------------------
(* Bounds *)

MaxRoutes == 2
MaxPathLen == 2
MaxNormalize == 2
MaxRawLen == 3
MaxSuspended == 1

-----------------------------------------------------------------------------
(* JavaScript values *)

Undefined == [type |-> "undefined"]
Null == [type |-> "null"]
None == [type |-> "none"]

Str(s) == [type |-> "string", v |-> s]

\* A plain object such as { foo: "bar" }
PlainObject == [type |-> "object", foo |-> "bar"]

\* A plain object with a message of its own, which is no Error
MessageObject == [type |-> "object", message |-> "not an error"]

\* ResponseInit carrying headers and a status of its own
InitHeaders == [type |-> "ResponseInit", headers |-> "WWW-Authenticate", status |-> 200]

\* ResponseInit carrying headers only
InitPlain == [type |-> "ResponseInit", headers |-> "WWW-Authenticate"]

\* STATUS_TEXT of @std/http/status, for the statuses used here
STATUS_TEXT(status) ==
    CASE status = 401 -> "Unauthorized"
      [] status = 403 -> "Forbidden"
      [] status = 404 -> "Not Found"
      [] status = 405 -> "Method Not Allowed"
      [] status = 400 -> "Bad Request"
      [] status = 409 -> "Conflict"
      [] status = 422 -> "Unprocessable Entity"
      [] status = 500 -> "Internal Server Error"
      [] status = 502 -> "Bad Gateway"
      [] status = 503 -> "Service Unavailable"
      [] status = 504 -> "Gateway Timeout"
      [] OTHER -> "Unknown"

-----------------------------------------------------------------------------
(* HttpError *)

\* options?.cause as the Error constructor installs it: the own property
\* "cause" of options when there is one, otherwise no cause (undefined)
OptionsCause(options) ==
    IF options.type = "options" /\ options.hasCause THEN options.cause ELSE Undefined

\* options?.init
OptionsInit(options) ==
    IF options.type = "options" /\ options.hasInit THEN options.init ELSE Undefined

Options(hasCause, cause, hasInit, init) ==
    [type |-> "options", hasCause |-> hasCause, cause |-> cause,
     hasInit |-> hasInit, init |-> init]

CauseOnly(cause) == Options(TRUE, cause, FALSE, Undefined)

\* new HttpError(status, message, options); message is a Str or Undefined
HttpError_NoDefault(status, message, options) ==
    [type |-> "Error", name |-> "HttpError", status |-> status,
     message |-> IF message = Undefined THEN "" ELSE message.v,
     cause |-> OptionsCause(options), init |-> OptionsInit(options)]

HttpError_DropsCause(status, message, options) ==
    [type |-> "Error", name |-> "HttpError", status |-> status,
     message |-> IF message = Undefined THEN STATUS_TEXT(status) ELSE message.v,
     cause |-> Undefined, init |-> OptionsInit(options)]

HttpError(status, message, options) ==
    [type |-> "Error", name |-> "HttpError", status |-> status,
     message |-> IF message = Undefined THEN STATUS_TEXT(status) ELSE message.v,
     cause |-> OptionsCause(options), init |-> OptionsInit(options)]

\* An error of another class; kind is its constructor's name
OtherError(kind, message) ==
    [type |-> "Error", name |-> kind, status |-> 0, message |-> message,
     cause |-> Undefined, init |-> Undefined]

\* error instanceof HttpError
IsHttpError(e) == e.type = "Error" /\ e.name = "HttpError"

-----------------------------------------------------------------------------
(* URL patterns and requests *)

Lit(s) == [kind |-> "lit", v |-> s]
Param(n) == [kind |-> "param", v |-> n]
Wild == [kind |-> "wild", v |-> "0"]

\* new URLPattern({ pathname }): "/foo", "/foo/:bar", "/foo/*", "/:bar"
Patterns ==
    { <<Lit("foo")>>, <<Lit("foo"), Param("bar")>>, <<Lit("foo"), Wild>>,
      <<Param("bar")>> }

Segments == {"foo", "123"}

\* Paths of at most MaxPathLen segments; only the last segment may be empty
Paths ==
    UNION { { p \in [1..n -> Segments \cup {""}] :
                \A k \in 1..(n - 1) : p[k] # "" } : n \in 1..MaxPathLen }

\* The keys a method map declares, and the method tokens a request can
\* carry: "constructor" and "__proto__" are valid method tokens too.
OwnMethods == {"GET"}
Methods == {"GET", "POST", "constructor", "__proto__"}

Request(url, method) == [type |-> "Request", url |-> url, method |-> method]

Requests == { Request(u, m) : u \in Paths, m \in Methods }

RECURSIVE Join(_)
\* The segments of the rest of a path joined by "/"
Join(segs) ==
    IF Len(segs) = 0 THEN ""
    ELSE IF Len(segs) = 1 THEN segs[1]
    ELSE segs[1] \o "/" \o Join(Tail(segs))

HasWild(pattern) == Len(pattern) > 0 /\ pattern[Len(pattern)].kind = "wild"

\* Whether the pathname component of the pattern matches the path: a literal
\* matches the same segment, :name one non-empty segment, a final * the rest
PathMatches(pattern, url) ==
    /\ IF HasWild(pattern) THEN Len(url) >= Len(pattern) ELSE Len(url) = Len(pattern)
    /\ \A k \in 1..Len(pattern) :
          CASE pattern[k].kind = "lit" -> url[k] = pattern[k].v
            [] pattern[k].kind = "param" -> url[k] # ""
            [] OTHER -> TRUE

GroupNames(pattern) ==
    { pattern[k].v : k \in { j \in 1..Len(pattern) : pattern[j].kind # "lit" } }

\* pattern.exec(request.url): null, or a result with the pathname groups
exec(pattern, url) ==
    IF ~PathMatches(pattern, url) THEN Null
    ELSE [type |-> "URLPatternResult",
          groups |-> [n \in GroupNames(pattern) |->
                         IF n = "0" THEN Join(SubSeq(url, Len(pattern), Len(url)))
                         ELSE url[CHOOSE k \in 1..Len(pattern) : pattern[k] = Param(n)]]]

\* pattern.test(request.url)
test(pattern, url) == exec(pattern, url) # Null

-----------------------------------------------------------------------------
(* Route tables *)

\* { pattern, handler }: one handler for all methods
SingleRoute(pattern) == [pattern |-> pattern, kind |-> "handler", keys |-> {}]

\* { pattern, handlers }: a method map with the given own keys
MapRoute(pattern, keys) == [pattern |-> pattern, kind |-> "handlers", keys |-> keys]

Routes ==
    { SingleRoute(p) : p \in Patterns }
      \cup { MapRoute(p, ks) : p \in Patterns, ks \in SUBSET OwnMethods }

RouteTables == UNION { [1..n -> Routes] : n \in 0..MaxRoutes }

\* A route of the older shape { pattern, method, handler }
IsMethodRoute(r) == r.kind = "handlers" /\ Cardinality(r.keys) = 1

MethodOf(r) == CHOOSE m \in r.keys : TRUE

-----------------------------------------------------------------------------
(* Handlers *)

\* The handler the route at index idx declares under key
UserHandler(idx, key) == [type |-> "function", route |-> idx, key |-> key]

\* Object.prototype.constructor and Object.prototype, which every object
\* literal inherits under the keys "constructor" and "__proto__"
ObjectConstructor == [type |-> "function", route |-> 0, key |-> "Object"]
ObjectPrototype == [type |-> "object", foo |-> "prototype"]

\* if (!handler): undefined and null are falsy, functions and objects truthy
Truthy(v) == v.type \notin {"undefined", "null"}

Responses ==
    { [type |-> "Response", status |-> 200, body |-> "I'm a static route"],
      [type |-> "Response", status |-> 204, body |-> ""] }

\* The promise an asynchronous handler returns
HandlerPromise == [type |-> "Promise", of |-> "handler"]

\* What a handler may throw, or reject its promise with
ThrownErrors ==
    { HttpError(404, Str("I'm a 404 message"), CauseOnly(PlainObject)),
      OtherError("SyntaxError", "This is an error") }

Return(v) == [kind |-> "return", value |-> v]
Throw(e) == [kind |-> "throw", value |-> e]

Pending == [state |-> "pending", value |-> Undefined]
Fulfilled(v) == [state |-> "fulfilled", value |-> v]
Rejected(e) == [state |-> "rejected", value |-> e]

Invoke_Twice(fn, args) ==
    /\ calls' = calls \o << [fn |-> fn, args |-> args], [fn |-> fn, args |-> args] >>
    /\ \/ \E r \in Responses :
            handlerExit' = Return(r) /\ promise' = None
       \/ handlerExit' = Return(HandlerPromise) /\ promise' = Pending
       \/ \E e \in ThrownErrors :
            handlerExit' = Throw(e) /\ promise' = None

\* A call of a user's handler: it returns a response, returns a promise that
\* settles later, or throws
Invoke(fn, args) ==
    /\ calls' = Append(calls, [fn |-> fn, args |-> args])
    /\ \/ \E r \in Responses :
            handlerExit' = Return(r) /\ promise' = None
       \/ handlerExit' = Return(HandlerPromise) /\ promise' = Pending
       \/ \E e \in ThrownErrors :
            handlerExit' = Throw(e) /\ promise' = None

-----------------------------------------------------------------------------
(* route() of src/mod.ts *)

\* route.handlers[request.method]: a property read, which finds own keys
\* and the properties inherited from Object.prototype
handlersGet(r, idx, method) ==
    IF method \in r.keys THEN UserHandler(idx, method)
    ELSE IF method = "constructor" THEN ObjectConstructor
    ELSE IF method = "__proto__" THEN ObjectPrototype
    ELSE Undefined

\* "handler" in route ? route.handler : route.handlers[request.method]
resolve_MapOnly(r, idx, method) == handlersGet(r, idx, method)

resolve(r, idx, method) ==
    IF r.kind = "handler" THEN UserHandler(idx, "handler")
    ELSE handlersGet(r, idx, method)

\* The route table is built at startup and a request arrives
Init ==
    /\ routes \in RouteTables
    /\ pc = "idle"
    /\ entry = "route"
    /\ request = None
    /\ i = 1
    /\ match = Null
    /\ consulted = {}
    /\ calls = <<>>
    /\ handlerExit = None
    /\ promise = None
    /\ outcome = None
    /\ ctor = None
    /\ norm = None
    /\ rendered = None
    /\ storage = None
    /\ fileInfo = None
    /\ filePath = <<>>
    /\ ops = <<>>
    /\ previous = None
    /\ handle = None
    /\ suspended = <<>>

\* The server hands the next request to a dispatch function.  The older
\* dispatch functions take tables of their own route shape.
Receive ==
    /\ pc = "idle"
    /\ \E req \in Requests, e \in {"route", "createHandler", "routeAsync"} :
          /\ e = "createHandler" => \A k \in 1..Len(routes) : routes[k].kind = "handlers"
          /\ e = "routeAsync" => \A k \in 1..Len(routes) : IsMethodRoute(routes[k])
          /\ request' = req
          /\ entry' = e
    /\ pc' = "scan"
    /\ i' = 1
    /\ match' = Null
    /\ consulted' = {}
    /\ calls' = <<>>
    /\ handlerExit' = None
    /\ promise' = None
    /\ outcome' = None
    /\ UNCHANGED <<routes, errorVars, fileVars, suspended>>

\* for (const route of routes): the pattern does not match, continue
RouteContinue ==
    /\ pc = "scan" /\ entry = "route"
    /\ i <= Len(routes)
    /\ exec(routes[i].pattern, request.url) = Null
    /\ i' = i + 1
    /\ match' = Null
    /\ consulted' = consulted \cup {i}
    /\ UNCHANGED <<routes, pc, entry, request, calls, handlerExit, promise,
                   outcome, errorVars, fileVars, suspended>>

\* The loop is exhausted: throw new HttpError(404, undefined, { cause: request })
RouteNotFound ==
    /\ pc = "scan" /\ entry = "route"
    /\ i > Len(routes)
    /\ outcome' = Throw(HttpError(404, Undefined, CauseOnly(request)))
    /\ pc' = "done"
    /\ UNCHANGED <<routes, entry, request, i, match, consulted, calls,
                   handlerExit, promise, errorVars, fileVars, suspended>>

\* The pattern matches and no handler is found:
\* throw new HttpError(405, undefined, { cause: request })
RouteMethodNotAllowed ==
    /\ pc = "scan" /\ entry = "route"
    /\ i <= Len(routes)
    /\ exec(routes[i].pattern, request.url) # Null
    /\ ~Truthy(resolve(routes[i], i, request.method))
    /\ match' = exec(routes[i].pattern, request.url)
    /\ consulted' = consulted \cup {i}
    /\ outcome' = Throw(HttpError(405, Undefined, CauseOnly(request)))
    /\ pc' = "done"
    /\ UNCHANGED <<routes, entry, request, i, calls, handlerExit, promise,
                   errorVars, fileVars, suspended>>

\* handler(request, match): the arguments of the call
HandlerArgs_StaleMatch(req, m) == <<req, match>>

HandlerArgs(req, m) == <<req, m>>

\* What route() hands its caller after the handler ran: the handler's own
\* return value, or its exception
RouteExit_Rebuilt(exit) ==
    IF exit.kind = "return" /\ exit.value.type = "Response"
    THEN Return([exit.value EXCEPT !.status = 200])
    ELSE exit

RouteExit_Wrapped(exit) ==
    IF exit.kind = "throw"
    THEN Throw(HttpError(500, Undefined, CauseOnly(exit.value)))
    ELSE exit

RouteExit(exit) == exit

\* The pattern matches and the route declares a handler:
\* return handler(request, match)
RouteInvoke ==
    /\ pc = "scan" /\ entry = "route"
    /\ i <= Len(routes)
    /\ exec(routes[i].pattern, request.url) # Null
    /\ LET handler == resolve(routes[i], i, request.method)
           m == exec(routes[i].pattern, request.url)
       IN  /\ handler.type = "function" /\ handler.route # 0
           /\ match' = m
           /\ Invoke(handler, HandlerArgs(request, m))
    /\ consulted' = consulted \cup {i}
    /\ outcome' = RouteExit(handlerExit')
    /\ pc' = IF promise' = Pending THEN "awaiting" ELSE "done"
    /\ UNCHANGED <<routes, entry, request, i, errorVars, fileVars, suspended>>

\* The pattern matches and the property read finds an inherited property:
\* Object(request, match) returns its first argument
RouteInvokeInherited ==
    /\ pc = "scan" /\ entry = "route"
    /\ i <= Len(routes)
    /\ exec(routes[i].pattern, request.url) # Null
    /\ resolve(routes[i], i, request.method) = ObjectConstructor
    /\ match' = exec(routes[i].pattern, request.url)
    /\ calls' = Append(calls, [fn |-> ObjectConstructor,
                               args |-> HandlerArgs(request, match')])
    /\ handlerExit' = Return(request)
    /\ consulted' = consulted \cup {i}
    /\ outcome' = RouteExit(handlerExit')
    /\ pc' = "done"
    /\ UNCHANGED <<routes, entry, request, i, promise, errorVars, fileVars, suspended>>

\* The pattern matches and the property read finds an inherited property
\* that is not a function: the call itself throws a TypeError
RouteInvokeNotCallable ==
    /\ pc = "scan" /\ entry = "route"
    /\ i <= Len(routes)
    /\ exec(routes[i].pattern, request.url) # Null
    /\ resolve(routes[i], i, request.method) = ObjectPrototype
    /\ match' = exec(routes[i].pattern, request.url)
    /\ consulted' = consulted \cup {i}
    /\ outcome' = Throw(OtherError("TypeError", "handler is not a function"))
    /\ pc' = "done"
    /\ UNCHANGED <<routes, entry, request, i, calls, handlerExit, promise,
                   errorVars, fileVars, suspended>>

\* The promise of an asynchronous handler settles
HandlerSettles ==
    /\ pc = "awaiting"
    /\ promise = Pending
    /\ \/ \E r \in Responses : promise' = Fulfilled(r)
       \/ \E e \in ThrownErrors : promise' = Rejected(e)
    /\ pc' = IF entry = "routeAsync" THEN "resuming" ELSE "done"
    /\ UNCHANGED <<routes, entry, request, i, match, consulted, calls,
                   handlerExit, outcome, errorVars, fileVars, suspended>>

-----------------------------------------------------------------------------
(* createHandler(): the closure it returns *)

\* Index of the first route routes.find(...) accepts, 0 when there is none
FindFirst(table, url) ==
    IF \E k \in 1..Len(table) : test(table[k].pattern, url)
    THEN CHOOSE k \in 1..Len(table) :
            /\ test(table[k].pattern, url)
            /\ \A j \in 1..(k - 1) : ~test(table[j].pattern, url)
    ELSE 0

\* The routes find() has tested when it stops
Tested(table, url) ==
    IF FindFirst(table, url) = 0 THEN 1..Len(table) ELSE 1..FindFirst(table, url)

\* methodHandlers[1].get(request.method): a Map lookup, own keys only
MapGet(r, idx, method) ==
    IF method \in r.keys THEN UserHandler(idx, method) ELSE Undefined

\* No pattern matches: throw new HttpError(404, undefined, { cause: request })
HandleNotFound ==
    /\ pc = "scan" /\ entry = "createHandler"
    /\ FindFirst(routes, request.url) = 0
    /\ consulted' = Tested(routes, request.url)
    /\ outcome' = Throw(HttpError(404, Undefined, CauseOnly(request)))
    /\ pc' = "done"
    /\ UNCHANGED <<routes, entry, request, i, match, calls, handlerExit,
                   promise, errorVars, fileVars, suspended>>

\* The found route has no handler for the method:
\* throw new HttpError(405, undefined, { cause: request })
HandleMethodNotAllowed ==
    /\ pc = "scan" /\ entry = "createHandler"
    /\ LET k == FindFirst(routes, request.url)
       IN  /\ k # 0
           /\ ~Truthy(MapGet(routes[k], k, request.method))
           /\ i' = k
    /\ consulted' = Tested(routes, request.url)
    /\ outcome' = Throw(HttpError(405, Undefined, CauseOnly(request)))
    /\ pc' = "done"
    /\ UNCHANGED <<routes, entry, request, match, calls, handlerExit,
                   promise, errorVars, fileVars, suspended>>

\* return handler(request)
HandleInvoke ==
    /\ pc = "scan" /\ entry = "createHandler"
    /\ LET k == FindFirst(routes, request.url)
       IN  /\ k # 0
           /\ Truthy(MapGet(routes[k], k, request.method))
           /\ i' = k
           /\ Invoke(MapGet(routes[k], k, request.method), <<request>>)
    /\ consulted' = Tested(routes, request.url)
    /\ outcome' = handlerExit'
    /\ pc' = IF promise' = Pending THEN "awaiting" ELSE "done"
    /\ UNCHANGED <<routes, entry, request, match, errorVars, fileVars, suspended>>

-----------------------------------------------------------------------------
(* The asynchronous route() over { pattern, method, handler } routes *)

\* The promise an async function returns
AsyncResult(state) == [kind |-> "promise", value |-> state]

\* catch (error): an HttpError is rethrown, anything else is wrapped as 500
Catch_Rethrows(error) == error

Catch(error) ==
    IF IsHttpError(error) THEN error
    ELSE HttpError(500, Undefined, CauseOnly(error))

\* if (!found) throw new HttpError(404, undefined, { cause: request })
AsyncNotFound ==
    /\ pc = "scan" /\ entry = "routeAsync"
    /\ FindFirst(routes, request.url) = 0
    /\ consulted' = Tested(routes, request.url)
    /\ outcome' = AsyncResult(Rejected(HttpError(404, Undefined, CauseOnly(request))))
    /\ pc' = "done"
    /\ UNCHANGED <<routes, entry, request, i, match, calls, handlerExit,
                   promise, errorVars, fileVars, suspended>>

\* if (request.method !== found.method) throw new HttpError(405, ...)
AsyncMethodNotAllowed ==
    /\ pc = "scan" /\ entry = "routeAsync"
    /\ LET k == FindFirst(routes, request.url)
       IN  /\ k # 0
           /\ request.method # MethodOf(routes[k])
           /\ i' = k
    /\ consulted' = Tested(routes, request.url)
    /\ outcome' = AsyncResult(Rejected(HttpError(405, Undefined, CauseOnly(request))))
    /\ pc' = "done"
    /\ UNCHANGED <<routes, entry, request, match, calls, handlerExit,
                   promise, errorVars, fileVars, suspended>>

\* try { return await found.handler(request) }: the handler runs; a
\* synchronous throw is caught at once, a value or a promise is awaited
AsyncInvoke ==
    /\ pc = "scan" /\ entry = "routeAsync"
    /\ LET k == FindFirst(routes, request.url)
       IN  /\ k # 0
           /\ request.method = MethodOf(routes[k])
           /\ i' = k
           /\ Invoke(UserHandler(k, MethodOf(routes[k])), <<request>>)
    /\ consulted' = Tested(routes, request.url)
    /\ outcome' = IF handlerExit'.kind = "throw"
                  THEN AsyncResult(Rejected(Catch(handlerExit'.value)))
                  ELSE AsyncResult(Pending)
    /\ pc' = IF handlerExit'.kind = "throw" THEN "done"
             ELSE IF promise' = Pending THEN "awaiting"
             ELSE "resuming"
    /\ UNCHANGED <<routes, entry, request, match, errorVars, fileVars, suspended>>

\* The await completes: route() resolves with the handler's response, or the
\* rejection of the handler's promise reaches the catch block
AsyncResume ==
    /\ pc = "resuming" /\ entry = "routeAsync"
    /\ outcome' =
          IF promise = None THEN AsyncResult(Fulfilled(handlerExit.value))
          ELSE IF promise.state = "fulfilled" THEN AsyncResult(Fulfilled(promise.value))
          ELSE AsyncResult(Rejected(Catch(promise.value)))
    /\ pc' = "done"
    /\ UNCHANGED <<routes, entry, request, i, match, consulted, calls,
                   handlerExit, promise, errorVars, fileVars, suspended>>

\* The caller has taken the outcome; the request-scoped state is dropped
Finish ==
    /\ pc = "done"
    /\ pc' = "idle"
    /\ entry' = "route"
    /\ request' = None
    /\ i' = 1
    /\ match' = Null
    /\ consulted' = {}
    /\ calls' = <<>>
    /\ handlerExit' = None
    /\ promise' = None
    /\ outcome' = None
    /\ UNCHANGED <<routes, errorVars, fileVars, suspended>>

Next ==
    \/ Receive
    \/ Finish
    \/ RouteContinue
    \/ RouteNotFound
    \/ RouteMethodNotAllowed
    \/ RouteInvoke
    \/ RouteInvokeInherited
    \/ RouteInvokeNotCallable
    \/ HandlerSettles
    \/ HandleNotFound
    \/ HandleMethodNotAllowed
    \/ HandleInvoke
    \/ AsyncNotFound
    \/ AsyncMethodNotAllowed
    \/ AsyncInvoke
    \/ AsyncResume

Spec == Init /\ [][Next]_vars

-----------------------------------------------------------------------------
(* Several requests in flight.  A dispatch runs without interruption up to  *)
(* a promise it waits for; while it waits the server starts or continues    *)
(* other dispatches.  What a call holds is in its parameters and locals     *)
(* (routes, request, route, match, handler): each call has its own.         *)

\* The parameters and locals of the dispatch in progress
Frame ==
    [ pc |-> pc, entry |-> entry, request |-> request, i |-> i,
      match |-> match, consulted |-> consulted, calls |-> calls,
      handlerExit |-> handlerExit, promise |-> promise, outcome |-> outcome ]

\* The dispatch in progress waits for a promise
AtAwait == pc \in {"awaiting", "resuming"}

Restore(f) ==
    /\ pc' = f.pc
    /\ entry' = f.entry
    /\ request' = f.request
    /\ i' = f.i
    /\ match' = f.match
    /\ consulted' = f.consulted
    /\ calls' = f.calls
    /\ handlerExit' = f.handlerExit
    /\ promise' = f.promise
    /\ outcome' = f.outcome

Remove(seq, k) == SubSeq(seq, 1, k - 1) \o SubSeq(seq, k + 1, Len(seq))

\* The dispatch in progress waits for a promise and the server is free to
\* take the next request
Suspend ==
    /\ AtAwait
    /\ Len(suspended) < MaxSuspended
    /\ suspended' = Append(suspended, Frame)
    /\ pc' = "idle"
    /\ entry' = "route"
    /\ request' = None
    /\ i' = 1
    /\ match' = Null
    /\ consulted' = {}
    /\ calls' = <<>>
    /\ handlerExit' = None
    /\ promise' = None
    /\ outcome' = None
    /\ UNCHANGED <<routes, errorVars, fileVars>>

Resume_SharedRequest ==
    /\ suspended # <<>>
    /\ pc = "idle" \/ AtAwait
    /\ \E k \in 1..Len(suspended) :
          /\ Restore([suspended[k] EXCEPT
                         !.request = IF pc = "idle" THEN @ ELSE request])
          /\ suspended' = IF pc = "idle" THEN Remove(suspended, k)
                          ELSE [suspended EXCEPT ![k] = Frame]
    /\ UNCHANGED <<routes, errorVars, fileVars>>

\* The event loop continues a dispatch that waits: the server is idle, or
\* the dispatch in progress waits for a promise in its turn
Resume ==
    /\ suspended # <<>>
    /\ pc = "idle" \/ AtAwait
    /\ \E k \in 1..Len(suspended) :
          /\ Restore(suspended[k])
          /\ suspended' = IF pc = "idle" THEN Remove(suspended, k)
                          ELSE [suspended EXCEPT ![k] = Frame]
    /\ UNCHANGED <<routes, errorVars, fileVars>>

NextConcurrent ==
    \/ Next
    \/ Suspend
    \/ Resume

\* The route tables the interleavings are explored with: a static route
\* before a parametric one, each with a GET handler, and a single route
\* with one handler for all methods
ConcurrentTables ==
    { << MapRoute(<<Lit("foo")>>, {"GET"}), MapRoute(<<Param("bar")>>, {"GET"}) >>,
      << SingleRoute(<<Lit("foo"), Param("bar")>>) >> }

InitConcurrent == Init /\ routes \in ConcurrentTables

SpecConcurrent == InitConcurrent /\ [][NextConcurrent]_vars

-----------------------------------------------------------------------------
(* toHttpError *)

\* The classes the versions of toHttpErrorCode test for, and the base class
ErrorKinds ==
    { "SyntaxError", "TypeError", "RangeError", "URIError", "EvalError",
      "AddrNotAvailable", "PermissionDenied", "NotFound", "AlreadyExists",
      "InvalidData", "ConnectionRefused", "ConnectionReset", "Http",
      "UnexpectedEof", "Busy", "TimedOut", "Interrupted", "ConnectionAborted",
      "BrokenPipe", "Error" }

\* error instanceof Error
IsError(error) == error.type = "Error"

toHttpErrorCode(error) ==
    IF ~IsError(error) THEN 500
    ELSE IF error.name \in { "SyntaxError", "RangeError", "URIError", "EvalError",
                             "AddrNotAvailable" } THEN 400
    ELSE IF error.name = "PermissionDenied" THEN 403
    ELSE IF error.name = "NotFound" THEN 404
    ELSE IF error.name = "AlreadyExists" THEN 409
    ELSE IF error.name = "InvalidData" THEN 422
    ELSE IF error.name \in { "ConnectionRefused", "ConnectionReset", "Http",
                             "UnexpectedEof" } THEN 502
    ELSE IF error.name = "Busy" THEN 503
    ELSE IF error.name = "TimedOut" THEN 504
    ELSE 500

\* error instanceof Error ? error.message : undefined
MessageOf(error) == IF IsError(error) THEN Str(error.message) ELSE Undefined

toHttpError_AlwaysWraps(error) ==
    HttpError(toHttpErrorCode(error), MessageOf(error), CauseOnly(error))

toHttpError(error) ==
    IF IsHttpError(error) THEN error
    ELSE HttpError(toHttpErrorCode(error), MessageOf(error), CauseOnly(error))

\* The first toHttpErrorCode, declared on an Error: every test is an
\* instanceof, so a value that is no Error falls through to 500
toHttpErrorCodeOld(error) ==
    IF ~IsError(error) THEN 500
    ELSE IF error.name \in { "SyntaxError", "TypeError", "RangeError", "URIError",
                             "EvalError" } THEN 400
    ELSE IF error.name = "NotFound" THEN 404
    ELSE IF error.name = "PermissionDenied" THEN 403
    ELSE IF error.name = "AlreadyExists" THEN 409
    ELSE IF error.name = "InvalidData" THEN 422
    ELSE IF error.name = "Busy" THEN 503
    ELSE IF error.name = "TimedOut" THEN 504
    ELSE IF error.name = "Interrupted" THEN 499
    ELSE IF error.name \in { "ConnectionRefused", "ConnectionReset" } THEN 502
    ELSE IF error.name \in { "ConnectionAborted", "BrokenPipe" } THEN 499
    ELSE IF error.name = "AddrNotAvailable" THEN 400
    ELSE IF error.name \in { "Http", "UnexpectedEof" } THEN 502
    ELSE 500

\* What a failed evaluation gives in place of a value
Thrown(e) == [type |-> "thrown", error |-> e]

\* error.message, a property read: it fails on null and undefined, and gives
\* undefined on a value without the property
ReadMessage(error) ==
    IF error \in {Null, Undefined}
    THEN Thrown(OtherError("TypeError", "Cannot read properties of null or undefined"))
    ELSE IF "message" \in DOMAIN error THEN Str(error.message)
    ELSE Undefined

\* The first toHttpError, declared on an Error
toHttpErrorOld(error) ==
    IF IsHttpError(error) THEN error
    ELSE IF ReadMessage(error).type = "thrown" THEN ReadMessage(error)
    ELSE HttpError(toHttpErrorCodeOld(error), ReadMessage(error), CauseOnly(error))

\* The exported normalisers of the versions of the library
Normalizers == {"toHttpError", "toHttpErrorOld"}

Normalized(fn, error) ==
    IF fn = "toHttpErrorOld" THEN toHttpErrorOld(error) ELSE toHttpError(error)

-----------------------------------------------------------------------------
(* Callers of the HttpError constructor and of toHttpError *)

Statuses == {401, 404, 500}

Messages == {Undefined, Str("Something went wrong"), Str("")}

Causes == {Undefined, PlainObject, OtherError("Error", "Underlying error")}

OptionsArgs ==
    {Undefined}
      \cup { Options(hc, IF hc THEN c ELSE Undefined, hi, IF hi THEN init ELSE Undefined) :
                hc \in BOOLEAN, c \in Causes, hi \in BOOLEAN,
                init \in {InitHeaders, InitPlain} }

\* The values a caller may hand to toHttpError
ErrorInputs ==
    { HttpError(st, m, CauseOnly(PlainObject)) : st \in Statuses, m \in Messages }
      \cup { OtherError(k, m) : k \in ErrorKinds, m \in {"", "This is an error"} }
      \cup { Null, Undefined, Str("thrown string"), PlainObject, MessageObject }

InitError ==
    /\ routes = <<>>
    /\ pc = "idle"
    /\ entry = "route"
    /\ request = None
    /\ i = 1
    /\ match = Null
    /\ consulted = {}
    /\ calls = <<>>
    /\ handlerExit = None
    /\ promise = None
    /\ outcome = None
    /\ ctor = None
    /\ norm = None
    /\ rendered = None
    /\ storage = None
    /\ fileInfo = None
    /\ filePath = <<>>
    /\ ops = <<>>
    /\ previous = None
    /\ handle = None
    /\ suspended = <<>>

\* new HttpError(status, message, options)
Construct ==
    /\ \E st \in Statuses, m \in Messages, o \in OptionsArgs :
          ctor' = [status |-> st, message |-> m, options |-> o,
                   error |-> HttpError(st, m, o)]
    /\ norm' = None
    /\ rendered' = None
    /\ UNCHANGED <<dispatchVars, fileVars, suspended>>

\* The errors a caller holds: the one just built, or one it caught
Held(caught) == IF ctor = None THEN caught ELSE {ctor.error}

\* toHttpError(error), on a value of the caller or on an error just built
Normalize ==
    /\ \E e \in Held(ErrorInputs), fn \in Normalizers :
          norm' = [fn |-> fn, input |-> e, results |-> <<Normalized(fn, e)>>]
    /\ rendered' = None
    /\ UNCHANGED <<dispatchVars, ctor, fileVars, suspended>>

\* toHttpError applied to its own result
Renormalize ==
    /\ norm # None
    /\ Len(norm.results) < MaxNormalize
    /\ IsHttpError(norm.results[Len(norm.results)])
    /\ norm' = [norm EXCEPT !.results =
                   Append(@, Normalized(norm.fn, norm.results[Len(norm.results)]))]
    /\ UNCHANGED <<dispatchVars, ctor, rendered, fileVars, suspended>>

\* { status: error.status, ...error.init }: the properties of init are
\* copied after status, so a status of init replaces the one before it
SpreadInit(error) ==
    [status |-> IF error.init # Undefined /\ "status" \in DOMAIN error.init
                THEN error.init.status ELSE error.status,
     headers |-> IF error.init # Undefined /\ "headers" \in DOMAIN error.init
                 THEN error.init.headers ELSE Undefined]

\* The catch block of the documented fetch handler
ErrorBoundary(error) ==
    IF IsHttpError(error)
    THEN [type |-> "Response", body |-> error.message,
          status |-> SpreadInit(error).status, headers |-> SpreadInit(error).headers]
    ELSE [type |-> "Response", body |-> "Internal Server Error",
          status |-> 500, headers |-> Undefined]

\* The fetch handler catches an error and renders it
Render ==
    /\ \E e \in Held(ThrownErrors) :
          rendered' = [error |-> e, response |-> ErrorBoundary(e)]
    /\ norm' = None
    /\ UNCHANGED <<dispatchVars, ctor, fileVars, suspended>>

NextError ==
    \/ Construct
    \/ Normalize
    \/ Renormalize
    \/ Render

SpecError == InitError /\ [][NextError]_vars

-----------------------------------------------------------------------------
(* URL paths as serveDir sees them *)

\* The path of a request target is the sequence of its segments, as written
\* by the client: "/a//b" is <<"a", "", "b">>, "/a/" is <<"a", "">>
RawSegments == {"a", "..", ".", "%2e%2e", "", "..b"}

RawPaths == UNION { [1..n -> RawSegments] : n \in 1..MaxRawLen }

\* s.startsWith(prefix)
StartsWith(str, prefix) ==
    Len(str) >= Len(prefix) /\ SubSeq(str, 1, Len(prefix)) = prefix

Last(path) == path[Len(path)]

Front(path) == SubSeq(path, 1, Len(path) - 1)

\* new URL(request.url).pathname: the URL parser drops "." segments and lets
\* ".." remove the segment before it; either one in last position leaves a
\* trailing separator.  Other segments, the empty one included, are kept.
\* The segments the URL parser takes for "..", and for "."
DoubleDots == {"..", "%2e%2e", ".%2e", "%2e."}

SingleDots == {".", "%2e"}

RECURSIVE ParsePath(_, _, _)
ParsePath(raw, k, acc) ==
    IF k > Len(raw) THEN acc
    ELSE IF raw[k] \in DoubleDots
         THEN ParsePath(raw, k + 1,
                 (IF acc = <<>> THEN acc ELSE Front(acc))
                    \o (IF k = Len(raw) THEN <<"">> ELSE <<>>))
    ELSE IF raw[k] \in SingleDots
         THEN ParsePath(raw, k + 1, acc \o (IF k = Len(raw) THEN <<"">> ELSE <<>>))
    ELSE ParsePath(raw, k + 1, Append(acc, raw[k]))

Pathname(raw) == IF raw = <<>> THEN <<"">> ELSE ParsePath(raw, 1, <<>>)

\* normalizeString of @std/path/posix on an absolute path: empty and "."
\* segments are skipped, ".." removes the segment before it and is dropped
\* at the root
RECURSIVE NormalizeString(_, _, _)
NormalizeString(path, k, acc) ==
    IF k > Len(path) THEN acc
    ELSE IF path[k] \in {"", "."} THEN NormalizeString(path, k + 1, acc)
    ELSE IF path[k] = ".."
         THEN NormalizeString(path, k + 1, IF acc = <<>> THEN acc ELSE Front(acc))
    ELSE NormalizeString(path, k + 1, Append(acc, path[k]))

\* normalize(url.pathname) of @std/path/posix: a trailing separator is kept,
\* and the root stays "/"
normalize(path) ==
    LET segments == NormalizeString(path, 1, <<>>)
    IN  IF segments = <<>> THEN <<"">>
        ELSE IF Last(path) = "" THEN Append(segments, "")
        ELSE segments

\* url.pathname.endsWith("/")
EndsWithSeparator(path) == Last(path) = ""

\* url.pathname = url.pathname.slice(0, -1): the setter parses what it is
\* given, and the path of an http URL is never empty
SliceSeparator(path) == Pathname(Front(path))

\* normalizedPath.replace(/^\/+/, ""): the path relative to the root, which
\* starts at the first segment that is not empty
RECURSIVE SafePath(_)
SafePath(path) ==
    IF path = <<>> THEN <<>>
    ELSE IF path[1] = "" THEN SafePath(Tail(path))
    ELSE path

\* safePath.startsWith("..") || safePath.includes("/..")
IsTraversal(safePath) ==
    \/ safePath # <<>> /\ StartsWith(safePath[1], "..")
    \/ \E k \in 2..Len(safePath) : StartsWith(safePath[k], "..")

\* The directory serveDir serves
RootFilePath == <<"srv">>

JoinPath_Unrooted(root, safePath) == NormalizeString(safePath, 1, <<>>)

\* join(rootFilePath, safePath) of @std/path/posix: the two are put
\* together and the result is normalised
JoinPath(root, safePath) == NormalizeString(root \o safePath, 1, <<>>)

-----------------------------------------------------------------------------
(* Files, validators and the headers of serveFile *)

\* new Date(ms), and the date of an HTTP header, which has whole seconds
Date(ms) == [type |-> "Date", ms |-> ms]

\* Modification times in milliseconds; a file system may report none
Mtimes == {Null, Date(1000), Date(1500), Date(2000), Date(2500)}

Sizes == {0, 42}

\* What the file system holds at a path
Files == { [kind |-> "file", size |-> sz, mtime |-> mt] : sz \in Sizes, mt \in Mtimes }

Directory == [kind |-> "directory", size |-> 0, mtime |-> Date(1000)]

Missing == [kind |-> "missing"]

Storages == Files \cup {Directory, Missing}

\* await Deno.stat(filePath): the FileInfo, or the rejection with
\* Deno.errors.NotFound when nothing is there
Stat(held) ==
    IF held.kind = "missing"
    THEN Thrown(OtherError("NotFound", "No such file or directory"))
    ELSE [type |-> "FileInfo", isFile |-> held.kind = "file",
          size |-> held.size, mtime |-> held.mtime]

\* mtime.toUTCString(): the milliseconds are not written
toUTCString(mtime) == Date((mtime.ms \div 1000) * 1000)

\* eTag(fileInfo) of @std/http/etag: a weak tag of the size and of a digest
\* of the modification time, undefined without a modification time
eTag(info) ==
    IF info.mtime = Null THEN Undefined
    ELSE [type |-> "etag", weak |-> TRUE, size |-> info.size, digest |-> info.mtime.ms]

\* The opaque part of a tag, without its W/ prefix
Opaque(tag) == [size |-> tag.size, digest |-> tag.digest]

\* An If-None-Match value is "*" or a list of tags
Star == [type |-> "star"]

TagList(tags) == [type |-> "tags", tags |-> tags]

\* ifNoneMatch(value, etag) of @std/http/etag: false when the value names
\* the tag, true when it does not or when either of them is missing
ifNoneMatch_AbsentMatches(value, etag) ==
    IF etag = Undefined THEN TRUE
    ELSE IF value = Null \/ value = Star THEN FALSE
    ELSE Opaque(etag) \notin { Opaque(tag) : tag \in value.tags }

ifNoneMatch(value, etag) ==
    IF value = Null \/ etag = Undefined THEN TRUE
    ELSE IF value = Star THEN FALSE
    ELSE Opaque(etag) \notin { Opaque(tag) : tag \in value.tags }

isNotModified_DateOnly(req, mtime, etag) ==
    /\ mtime # Null
    /\ req.ifModifiedSince # Null
    /\ mtime.ms < req.ifModifiedSince.ms + 1000

isNotModified_Inclusive(req, mtime, etag) ==
    IF etag = Undefined /\ mtime = Null THEN FALSE
    ELSE IF ~ifNoneMatch(req.ifNoneMatch, etag) THEN TRUE
    ELSE /\ req.ifNoneMatch = Null
         /\ mtime # Null
         /\ req.ifModifiedSince # Null
         /\ mtime.ms <= req.ifModifiedSince.ms + 1000

isNotModified_DateFallback(req, mtime, etag) ==
    IF etag = Undefined /\ mtime = Null THEN FALSE
    ELSE IF ~ifNoneMatch(req.ifNoneMatch, etag) THEN TRUE
    ELSE /\ mtime # Null
         /\ req.ifModifiedSince # Null
         /\ mtime.ms < req.ifModifiedSince.ms + 1000

isNotModified(req, mtime, etag) ==
    IF etag = Undefined /\ mtime = Null THEN FALSE
    ELSE IF ~ifNoneMatch(req.ifNoneMatch, etag) THEN TRUE
    ELSE /\ req.ifNoneMatch = Null
         /\ mtime # Null
         /\ req.ifModifiedSince # Null
         /\ mtime.ms < req.ifModifiedSince.ms + 1000

Headers_NoValidators(info) ==
    [acceptRanges |-> "none",
     contentLength |-> info.size,
     lastModified |-> Undefined,
     etag |-> Undefined]

\* The headers serveFile computes from the FileInfo.  The paths of the model
\* have no extension, for which contentType() gives nothing to set.
Headers(info) ==
    [acceptRanges |-> "none",
     contentLength |-> info.size,
     lastModified |-> IF info.mtime = Null THEN Undefined ELSE toUTCString(info.mtime),
     etag |-> eTag(info)]

\* new Response(body, { status, headers })
Response(body, status, headers) ==
    [type |-> "Response", status |-> status, body |-> body, headers |-> headers]

\* Response.redirect(url, 308)
Redirect(path) ==
    [type |-> "Response", status |-> 308, body |-> Null,
     headers |-> [location |-> path]]

-----------------------------------------------------------------------------
(* serveFile and serveDir *)

FileMethods == {"GET", "HEAD", "POST"}

\* The tags a client may hold: the ones serveFile hands out
KnownTags == { eTag(Stat(f)) : f \in { g \in Files : g.mtime # Null } }

IfNoneMatchValues == {Null, Star} \cup { TagList({tag}) : tag \in KnownTags }

IfModifiedSinceValues == {Null, Date(1000), Date(2000)}

FileRequest(method, url, inm, ims) ==
    [type |-> "Request", method |-> method, url |-> url,
     ifNoneMatch |-> inm, ifModifiedSince |-> ims]

\* Requests handed to serveFile together with a path of the caller's choice
FileRequests ==
    { FileRequest(m, <<"a">>, inm, ims) :
        m \in FileMethods, inm \in IfNoneMatchValues, ims \in IfModifiedSinceValues }

\* Requests handed to serveDir: any path, no validators
DirRequests == { FileRequest(m, raw, Null, Null) : m \in FileMethods, raw \in RawPaths }

IsGetOrHead_AnyMethod(req) == req.method \in FileMethods

IsGetOrHead(req) == req.method \in {"GET", "HEAD"}

InitFile ==
    /\ routes = <<>>
    /\ pc = "idle"
    /\ entry = "serveFile"
    /\ request = None
    /\ i = 1
    /\ match = Null
    /\ consulted = {}
    /\ calls = <<>>
    /\ handlerExit = None
    /\ promise = None
    /\ outcome = None
    /\ ctor = None
    /\ norm = None
    /\ rendered = None
    /\ storage \in Storages
    /\ fileInfo = None
    /\ filePath = <<>>
    /\ ops = <<>>
    /\ previous = None
    /\ handle = None
    /\ suspended = <<>>

\* What no step of serveFile or serveDir touches
FileFrame ==
    UNCHANGED <<routes, i, match, consulted, calls, handlerExit, promise,
                errorVars, suspended>>

\* serveFile(request, filePath) with a method other than GET and HEAD
ServeFileMethodNotAllowed ==
    /\ pc = "idle"
    /\ \E req \in FileRequests :
          /\ ~IsGetOrHead(req)
          /\ request' = req
    /\ entry' = "serveFile"
    /\ filePath' = JoinPath(RootFilePath, <<"a">>)
    /\ outcome' = AsyncResult(Rejected(HttpError(405, Undefined, Undefined)))
    /\ pc' = "done"
    /\ FileFrame
    /\ UNCHANGED <<storage, fileInfo, ops, previous, handle>>

\* serveFile(request, filePath) as far as its first await
ServeFile ==
    /\ pc = "idle"
    /\ \E req \in FileRequests :
          /\ IsGetOrHead(req)
          /\ request' = req
    /\ entry' = "serveFile"
    /\ filePath' = JoinPath(RootFilePath, <<"a">>)
    /\ pc' = "stat"
    /\ FileFrame
    /\ UNCHANGED <<storage, fileInfo, ops, previous, outcome, handle>>

\* const fileInfo = await Deno.stat(filePath), on a path that holds nothing
StatRejects ==
    /\ pc = "stat"
    /\ Stat(storage).type = "thrown"
    /\ ops' = Append(ops, [op |-> "stat", path |-> filePath])
    /\ outcome' = AsyncResult(Rejected(Stat(storage).error))
    /\ pc' = "done"
    /\ FileFrame
    /\ UNCHANGED <<entry, request, storage, fileInfo, filePath, previous, handle>>

\* if (!fileInfo.isFile) throw new HttpError(404)
StatNotFile ==
    /\ pc = "stat"
    /\ Stat(storage).type = "FileInfo"
    /\ ~Stat(storage).isFile
    /\ ops' = Append(ops, [op |-> "stat", path |-> filePath])
    /\ fileInfo' = Stat(storage)
    /\ outcome' = AsyncResult(Rejected(HttpError(404, Undefined, Undefined)))
    /\ pc' = "done"
    /\ FileFrame
    /\ UNCHANGED <<entry, request, storage, filePath, previous, handle>>

StatFile_HeadFirst ==
    /\ pc = "stat"
    /\ Stat(storage).type = "FileInfo"
    /\ Stat(storage).isFile
    /\ ops' = Append(ops, [op |-> "stat", path |-> filePath])
    /\ fileInfo' = Stat(storage)
    /\ LET info == Stat(storage)
           headers == Headers(info)
       IN  IF request.method = "HEAD"
           THEN /\ outcome' = AsyncResult(Fulfilled(Response(Null, 200, headers)))
                /\ pc' = "done"
           ELSE IF isNotModified(request, info.mtime, eTag(info))
           THEN /\ outcome' = AsyncResult(Fulfilled(Response(Null, 304, headers)))
                /\ pc' = "done"
           ELSE /\ outcome' = outcome
                /\ pc' = "open"
    /\ FileFrame
    /\ UNCHANGED <<entry, request, storage, filePath, previous, handle>>

\* The stat gave a regular file: the headers are built, then the request is
\* answered with 304, with the headers alone for HEAD, or the file is opened
StatFile ==
    /\ pc = "stat"
    /\ Stat(storage).type = "FileInfo"
    /\ Stat(storage).isFile
    /\ ops' = Append(ops, [op |-> "stat", path |-> filePath])
    /\ fileInfo' = Stat(storage)
    /\ LET info == Stat(storage)
           headers == Headers(info)
       IN  IF isNotModified(request, info.mtime, eTag(info))
           THEN /\ outcome' = AsyncResult(Fulfilled(Response(Null, 304, headers)))
                /\ pc' = "done"
           ELSE IF request.method = "HEAD"
           THEN /\ outcome' = AsyncResult(Fulfilled(Response(Null, 200, headers)))
                /\ pc' = "done"
           ELSE /\ outcome' = outcome
                /\ pc' = "open"
    /\ FileFrame
    /\ UNCHANGED <<entry, request, storage, filePath, previous, handle>>

\* The body of a response that streams an open file
Readable(path) == [type |-> "ReadableStream", of |-> path]

\* const file = await Deno.open(filePath);
\* return new Response(file.readable, { headers })
Open ==
    /\ pc = "open"
    /\ ops' = Append(ops, [op |-> "open", path |-> filePath])
    /\ outcome' = AsyncResult(Fulfilled(
                      Response(Readable(filePath), 200, Headers(fileInfo))))
    /\ handle' = [path |-> filePath, state |-> "open", stream |-> "readable"]
    /\ previous' = IF entry = "serveFile"
                   THEN [filePath |-> filePath, storage |-> storage,
                         response |-> Response(Readable(filePath), 200, Headers(fileInfo))]
                   ELSE previous
    /\ pc' = "done"
    /\ FileFrame
    /\ UNCHANGED <<entry, request, storage, fileInfo, filePath>>

\* serveDir(request, rootFilePath) with a method other than GET and HEAD
ServeDirMethodNotAllowed ==
    /\ pc = "idle"
    /\ \E req \in DirRequests :
          /\ ~IsGetOrHead(req)
          /\ request' = req
    /\ entry' = "serveDir"
    /\ outcome' = Throw(HttpError(405, Undefined, Undefined))
    /\ pc' = "done"
    /\ FileFrame
    /\ UNCHANGED fileVars

\* if (normalizedPath !== url.pathname): redirect to the normalized path
ServeDirRedirectNormalized ==
    /\ pc = "idle"
    /\ \E req \in DirRequests :
          /\ IsGetOrHead(req)
          /\ normalize(Pathname(req.url)) # Pathname(req.url)
          /\ request' = req
          /\ outcome' = Return(Redirect(Pathname(normalize(Pathname(req.url)))))
    /\ entry' = "serveDir"
    /\ pc' = "done"
    /\ FileFrame
    /\ UNCHANGED fileVars

\* if (url.pathname.endsWith("/")): redirect to the path without it
ServeDirRedirectSeparator ==
    /\ pc = "idle"
    /\ \E req \in DirRequests :
          /\ IsGetOrHead(req)
          /\ normalize(Pathname(req.url)) = Pathname(req.url)
          /\ EndsWithSeparator(Pathname(req.url))
          /\ request' = req
          /\ outcome' = Return(Redirect(SliceSeparator(Pathname(req.url))))
    /\ entry' = "serveDir"
    /\ pc' = "done"
    /\ FileFrame
    /\ UNCHANGED fileVars

\* if (safePath.startsWith("..") || safePath.includes("/.."))
\*   throw new HttpError(403)
ServeDirForbidden ==
    /\ pc = "idle"
    /\ \E req \in DirRequests :
          /\ IsGetOrHead(req)
          /\ normalize(Pathname(req.url)) = Pathname(req.url)
          /\ ~EndsWithSeparator(Pathname(req.url))
          /\ IsTraversal(SafePath(normalize(Pathname(req.url))))
          /\ request' = req
    /\ entry' = "serveDir"
    /\ outcome' = Throw(HttpError(403, Undefined, Undefined))
    /\ pc' = "done"
    /\ FileFrame
    /\ UNCHANGED fileVars

\* return serveFile(request, join(rootFilePath, safePath))
ServeDirDelegates ==
    /\ pc = "idle"
    /\ \E req \in DirRequests :
          /\ IsGetOrHead(req)
          /\ normalize(Pathname(req.url)) = Pathname(req.url)
          /\ ~EndsWithSeparator(Pathname(req.url))
          /\ ~IsTraversal(SafePath(normalize(Pathname(req.url))))
          /\ request' = req
          /\ filePath' = JoinPath(RootFilePath, SafePath(normalize(Pathname(req.url))))
    /\ entry' = "serveDir"
    /\ pc' = "stat"
    /\ FileFrame
    /\ UNCHANGED <<storage, fileInfo, ops, previous, outcome, handle>>

\* Between two requests the file is written, replaced or removed; a
\* response to an earlier state of the file is of no use any more
Modify ==
    /\ pc = "idle"
    /\ storage' \in Storages \ {storage}
    /\ previous' = None
    /\ FileFrame
    /\ UNCHANGED <<pc, entry, request, outcome, fileInfo, filePath, ops, handle>>

\* The consumer reads file.readable to its end, and Deno closes the file
Consume ==
    /\ pc = "done"
    /\ handle # None
    /\ handle.state = "open" /\ handle.stream = "readable"
    /\ handle' = [handle EXCEPT !.state = "closed", !.stream = "ended"]
    /\ FileFrame
    /\ UNCHANGED <<pc, entry, request, outcome, storage, fileInfo, filePath, ops, previous>>

Cancel_Leaks ==
    /\ pc = "done"
    /\ handle # None
    /\ handle.state = "open" /\ handle.stream = "readable"
    /\ handle' = [handle EXCEPT !.stream = "cancelled"]
    /\ FileFrame
    /\ UNCHANGED <<pc, entry, request, outcome, storage, fileInfo, filePath, ops, previous>>

\* The consumer cancels the body before its end, and Deno closes the file
Cancel ==
    /\ pc = "done"
    /\ handle # None
    /\ handle.state = "open" /\ handle.stream = "readable"
    /\ handle' = [handle EXCEPT !.state = "closed", !.stream = "cancelled"]
    /\ FileFrame
    /\ UNCHANGED <<pc, entry, request, outcome, storage, fileInfo, filePath, ops, previous>>

\* The exchange is over: the caller has taken the outcome of serveFile or
\* serveDir, and the body, if there is one, was read or cancelled
FileFinish ==
    /\ pc = "done"
    /\ handle # None => handle.state = "closed"
    /\ handle' = None
    /\ pc' = "idle"
    /\ entry' = "serveFile"
    /\ request' = None
    /\ outcome' = None
    /\ fileInfo' = None
    /\ filePath' = <<>>
    /\ ops' = <<>>
    /\ FileFrame
    /\ UNCHANGED <<storage, previous>>

NextFile ==
    \/ ServeFileMethodNotAllowed
    \/ ServeFile
    \/ StatRejects
    \/ StatNotFile
    \/ StatFile
    \/ Open
    \/ ServeDirMethodNotAllowed
    \/ ServeDirRedirectNormalized
    \/ ServeDirRedirectSeparator
    \/ ServeDirForbidden
    \/ ServeDirDelegates
    \/ Modify
    \/ Consume
    \/ Cancel
    \/ FileFinish

SpecFile == InitFile /\ [][NextFile]_vars

\* A response that streams a file is read to its end or cancelled
SpecFileLive == SpecFile /\ WF_handle(Consume \/ Cancel)

-----------------------------------------------------------------------------
(* What a finished dispatch gave its caller *)

\* Index of the first route in declaration order whose pattern matches the
\* URL of the request, 0 when no pattern matches
Winner ==
    IF \E k \in 1..Len(routes) : PathMatches(routes[k].pattern, request.url)
    THEN CHOOSE k \in 1..Len(routes) :
            /\ PathMatches(routes[k].pattern, request.url)
            /\ \A j \in 1..Len(routes) :
                  PathMatches(routes[j].pattern, request.url) => k <= j
    ELSE 0

\* The route declares a handler that serves the method
HasHandlerFor(r, method) == r.kind = "handler" \/ method \in r.keys

DeclaredHandler(k, method) ==
    IF routes[k].kind = "handler" THEN UserHandler(k, "handler")
    ELSE UserHandler(k, method)

\* Dispatch failed: it threw, or the promise it returned is rejected
Failed ==
    \/ outcome.kind = "throw"
    \/ outcome.kind = "promise" /\ outcome.value.state = "rejected"
    \/ outcome.kind = "return" /\ outcome.value = HandlerPromise
         /\ promise.state = "rejected"

FailureOf ==
    IF outcome.kind = "throw" THEN outcome.value
    ELSE IF outcome.kind = "promise" THEN outcome.value.value
    ELSE promise.value

\* The handler was invoked and failed, by a throw or by a rejection
HandlerFailed ==
    /\ handlerExit # None
    /\ \/ handlerExit.kind = "throw"
       \/ promise # None /\ promise.state = "rejected"

HandlerFailure ==
    IF handlerExit.kind = "throw" THEN handlerExit.value ELSE promise.value

\* The handler was invoked and produced a response, at once or by a promise
HandlerSucceeded ==
    /\ handlerExit # None
    /\ handlerExit.kind = "return"
    /\ promise # None => promise.state = "fulfilled"

HandlerResponse ==
    IF promise # None THEN promise.value ELSE handlerExit.value

\* The response the caller ends up with
DispatchResponse ==
    IF outcome.kind = "promise" THEN outcome.value.value
    ELSE IF outcome.value = HandlerPromise THEN promise.value
    ELSE outcome.value

IsRequestError(e, status, text) ==
    /\ IsHttpError(e)
    /\ e.status = status
    /\ e.message = text
    /\ e.cause = request

-----------------------------------------------------------------------------
(* Claims *)

\* C1: the outcome of dispatch is decided solely by the first route in
\* declaration order whose pattern matches: if it has a handler for the
\* request method that handler is the one invoked, otherwise dispatch fails
\* with 405; no later route is consulted.
C1_FirstMatchDecides ==
    (pc = "done" /\ Winner # 0) =>
        /\ consulted \subseteq 1..Winner
        /\ IF HasHandlerFor(routes[Winner], request.method)
           THEN /\ Len(calls) = 1
                /\ calls[1].fn = DeclaredHandler(Winner, request.method)
           ELSE /\ calls = <<>>
                /\ Failed
                /\ IsHttpError(FailureOf)
                /\ FailureOf.status = 405

\* C2: if no route's pattern matches the request URL (also when the table
\* is empty), dispatch fails with an HttpError of status 404, message
\* "Not Found" and the original request as cause.
C2_NoMatchIs404 ==
    (pc = "done" /\ Winner = 0) =>
        /\ Failed
        /\ IsRequestError(FailureOf, 404, "Not Found")
        /\ calls = <<>>

C2_Witness ==
    /\ pc = "done" /\ Winner = 0
    /\ Len(routes) = MaxRoutes
    /\ Failed

\* C3: if a route's pattern matches but its method map has no handler for
\* the request method (also when the map is empty), dispatch fails with an
\* HttpError of status 405 whose cause is the original request.
C3_NoMethodIs405 ==
    (/\ pc = "done" /\ Winner # 0
     /\ routes[Winner].kind = "handlers"
     /\ request.method \notin routes[Winner].keys) =>
        /\ Failed
        /\ IsRequestError(FailureOf, 405, "Method Not Allowed")

\* C4: if exactly one route's pattern matches and it has a handler for the
\* request's method, dispatch returns that handler's result unchanged: the
\* same response or the same promise, resolving to the handler's response.
C4_ResultUnchanged ==
    (/\ pc = "done" /\ Winner # 0
     /\ Cardinality({ k \in 1..Len(routes) :
                        PathMatches(routes[k].pattern, request.url) }) = 1
     /\ HasHandlerFor(routes[Winner], request.method)
     /\ HandlerSucceeded) =>
        /\ ~Failed
        /\ entry # "routeAsync" => outcome = handlerExit
        /\ DispatchResponse = HandlerResponse

C4_Witness ==
    /\ pc = "done" /\ Winner # 0
    /\ Cardinality({ k \in 1..Len(routes) :
                       PathMatches(routes[k].pattern, request.url) }) = 1
    /\ Len(routes) > 1
    /\ HasHandlerFor(routes[Winner], request.method)
    /\ HandlerSucceeded
    /\ promise # None
    /\ DispatchResponse.status = 204

\* C5: if the invoked handler fails, synchronously or asynchronously, with
\* an error that is already an HttpError, dispatch fails with that same
\* error, status, message and cause unchanged.
C5_HttpErrorPropagates ==
    (pc = "done" /\ HandlerFailed /\ IsHttpError(HandlerFailure)) =>
        /\ Failed
        /\ FailureOf = HandlerFailure

C5_Witness ==
    /\ pc = "done" /\ HandlerFailed /\ IsHttpError(HandlerFailure)
    /\ promise # None
    /\ Failed
    /\ FailureOf.message = "I'm a 404 message"

C7_SingleHandlerAllMethods ==
    (pc = "done" /\ Winner # 0 /\ routes[Winner].kind = "handler") =>
        /\ Len(calls) = 1
        /\ calls[1].fn = UserHandler(Winner, "handler")
        /\ ~(Failed /\ IsHttpError(FailureOf) /\ FailureOf.status = 405)

C7_Witness ==
    /\ pc = "done" /\ Winner # 0 /\ routes[Winner].kind = "handler"
    /\ request.method = "constructor"
    /\ Len(calls) = 1

\* C8: the invoked handler receives the original request and the captures of
\* the winning route's own pattern on the request URL: a named segment
\* captures the path segment at its position, the wildcard the rest of the
\* path; /foo/:bar on /foo/123 delivers bar = "123".
C8_HandlerArguments ==
    \A c \in 1..Len(calls) :
        /\ calls[c].args[1] = request
        /\ entry = "route" =>
              /\ Len(calls[c].args) = 2
              /\ calls[c].args[2] # Null
              /\ LET pattern == routes[Winner].pattern
                     groups == calls[c].args[2].groups
                 IN  /\ DOMAIN groups = GroupNames(pattern)
                     /\ \A k \in 1..Len(pattern) :
                           /\ pattern[k].kind = "param" =>
                                 groups[pattern[k].v] = request.url[k]
                           /\ pattern[k].kind = "wild" =>
                                 groups["0"] = Join(SubSeq(request.url, k, Len(request.url)))
                     /\ (pattern = <<Lit("foo"), Param("bar")>>
                           /\ request.url = <<"foo", "123">>) =>
                              groups.bar = "123"

C8_Witness ==
    /\ pc = "done" /\ entry = "route"
    /\ Len(routes) = 2
    /\ routes[1].pattern = <<Lit("foo"), Param("bar")>>
    /\ routes[2].pattern = <<Param("bar")>>
    /\ request.url = <<"foo", "123">>
    /\ Len(calls) = 1
    /\ calls[1].args[2].groups.bar = "123"

\* C9: new HttpError(status, message?, options?) has the name "HttpError",
\* the given status, the given message or the reason phrase of the status
\* when the message is omitted, options.cause as its cause and options.init
\* as its init, both undefined when not given.
C9_Constructor ==
    ctor # None =>
        /\ ctor.error.name = "HttpError"
        /\ ctor.error.status = ctor.status
        /\ ctor.error.message =
              (IF ctor.message = Undefined THEN STATUS_TEXT(ctor.status)
               ELSE ctor.message.v)
        /\ ctor.error.cause =
              (IF ctor.options # Undefined /\ ctor.options.hasCause
               THEN ctor.options.cause ELSE Undefined)
        /\ ctor.error.init =
              (IF ctor.options # Undefined /\ ctor.options.hasInit
               THEN ctor.options.init ELSE Undefined)
        /\ ctor.status = 500 /\ ctor.message = Undefined =>
              ctor.error.message = "Internal Server Error"

C9_Witness ==
    /\ ctor # None
    /\ ctor.status = 401
    /\ ctor.message = Undefined
    /\ ctor.options # Undefined
    /\ ctor.options.hasCause /\ ctor.options.cause = PlainObject
    /\ ctor.options.hasInit
    /\ ctor.error.message = "Unauthorized"

\* C10: toHttpError is idempotent: an error that is already an HttpError is
\* returned unchanged, so normalising a normalised error changes nothing.
C10_Idempotent ==
    norm # None =>
        /\ IsHttpError(norm.input) => norm.results[1] = norm.input
        /\ \A k \in 2..Len(norm.results) : norm.results[k] = norm.results[1]

C10_Witness ==
    /\ norm # None
    /\ ~IsHttpError(norm.input)
    /\ Len(norm.results) = 2
    /\ norm.results[2].cause = norm.input

\* C11: the status toHttpError gives an error that is not an HttpError is
\* fixed by the class of the error alone: 400 for SyntaxError, TypeError,
\* RangeError, URIError, EvalError and AddrNotAvailable, 403 for
\* PermissionDenied, 404 for NotFound, 409 for AlreadyExists, 422 for
\* InvalidData, 502 for ConnectionRefused, ConnectionReset, Http and
\* UnexpectedEof, 503 for Busy, 504 for TimedOut, 500 for every other class.
C11_StatusByKind ==
    (norm # None /\ IsError(norm.input) /\ ~IsHttpError(norm.input)) =>
        LET kind == norm.input.name
            claimed ==
                IF kind \in { "SyntaxError", "TypeError", "RangeError", "URIError",
                              "EvalError", "AddrNotAvailable" } THEN 400
                ELSE IF kind = "PermissionDenied" THEN 403
                ELSE IF kind = "NotFound" THEN 404
                ELSE IF kind = "AlreadyExists" THEN 409
                ELSE IF kind = "InvalidData" THEN 422
                ELSE IF kind \in { "ConnectionRefused", "ConnectionReset", "Http",
                                   "UnexpectedEof" } THEN 502
                ELSE IF kind = "Busy" THEN 503
                ELSE IF kind = "TimedOut" THEN 504
                ELSE 500
        IN  /\ IsHttpError(norm.results[1])
            /\ norm.results[1].status = claimed

\* C12: for a value e that is not an HttpError, toHttpError(e) is an
\* HttpError whose cause is e itself and whose message is the message of e,
\* or the reason phrase of the chosen status when e has no message property
\* or an empty message.
C12_CauseAndMessage ==
    (norm # None /\ ~IsHttpError(norm.input)) =>
        LET e == norm.input
            r == norm.results[1]
            carries == "message" \in DOMAIN e /\ e.message # ""
        IN  /\ IsHttpError(r)
            /\ r.cause = e
            /\ r.message = (IF carries THEN e.message ELSE STATUS_TEXT(r.status))

\* C13: toHttpError is total: for an Error, an HttpError, null, undefined, a
\* string or a plain object it returns an HttpError and never throws.
C13_Total ==
    norm # None => IsHttpError(norm.results[1])

\* C14: a response rendered from an HttpError that carries init has the
\* status of the error, also when init names another status; of init only
\* the headers take effect.
C14_StatusNotOverridden ==
    (rendered # None /\ IsHttpError(rendered.error)) =>
        /\ rendered.response.status = rendered.error.status
        /\ rendered.error.init # Undefined =>
              rendered.response.headers = rendered.error.init.headers

\* C15: a GET or HEAD request to serveDir whose path, once its repeated
\* separators are collapsed, has a parent-directory segment fails with an
\* HttpError of status 403 and no stat or open is made for it; so does
\* /../../etc/passwd against the root /srv.
C15_TraversalForbidden ==
    (/\ pc = "done" /\ entry = "serveDir"
     /\ request.method \in {"GET", "HEAD"}
     /\ \E k \in 1..Len(request.url) : request.url[k] = "..") =>
        /\ Failed
        /\ IsHttpError(FailureOf)
        /\ FailureOf.status = 403
        /\ ops = <<>>

\* C16: after a GET of serveFile answered with the file, a request for the
\* same unchanged file whose If-None-Match is the ETag of that response is
\* answered 304 with no body and with the ETag and Last-Modified of the
\* first response.
C16_RoundTrip ==
    (/\ pc = "done" /\ entry = "serveFile"
     /\ request.method \in {"GET", "HEAD"}
     /\ previous # None
     /\ previous.response.status = 200
     /\ previous.response.headers.etag # Undefined
     /\ storage = previous.storage
     /\ filePath = previous.filePath
     /\ request.ifNoneMatch = TagList({previous.response.headers.etag})) =>
        /\ outcome = AsyncResult(Fulfilled(DispatchResponse))
        /\ DispatchResponse.status = 304
        /\ DispatchResponse.body = Null
        /\ DispatchResponse.headers.etag = previous.response.headers.etag
        /\ DispatchResponse.headers.lastModified =
              previous.response.headers.lastModified

C16_Witness ==
    /\ pc = "done" /\ entry = "serveFile"
    /\ request.method = "GET"
    /\ previous # None
    /\ storage = previous.storage
    /\ storage.size = 42
    /\ request.ifNoneMatch = TagList({previous.response.headers.etag})
    /\ request.ifModifiedSince = Null
    /\ outcome.kind = "promise" /\ outcome.value.state = "fulfilled"
    /\ outcome.value.value.status = 304

\* C17: whatever the file and the validators, a response of serveFile to
\* HEAD has no body; a response to GET has a body exactly when the
\* not-modified check is false, and is then 200 with the stream of the file;
\* when the check is true the response is 304 without a body.
C17_BodyOnlyForModifiedGet ==
    (/\ pc = "done" /\ entry \in {"serveFile", "serveDir"}
     /\ outcome.kind = "promise" /\ outcome.value.state = "fulfilled") =>
        LET response == outcome.value.value
            notModified == isNotModified(request, fileInfo.mtime, eTag(fileInfo))
        IN  /\ request.method = "HEAD" => response.body = Null
            /\ request.method = "GET" => (response.body # Null <=> ~notModified)
            /\ (request.method = "GET" /\ ~notModified) =>
                  /\ response.status = 200
                  /\ response.body = Readable(filePath)
            /\ notModified => response.status = 304 /\ response.body = Null

C17_Witness ==
    /\ pc = "done" /\ entry = "serveFile"
    /\ request.method = "HEAD"
    /\ request.ifNoneMatch = Star
    /\ outcome.kind = "promise" /\ outcome.value.state = "fulfilled"
    /\ outcome.value.value.status = 304
    /\ outcome.value.value.body = Null

\* C18: a request whose method is neither GET nor HEAD makes serveFile and
\* serveDir fail with an HttpError of status 405 before anything else: no
\* stat, no open, and no redirect of serveDir, whatever the path.
C18_MethodCheckedFirst ==
    (entry \in {"serveFile", "serveDir"} /\ request # None
       /\ request.method \notin {"GET", "HEAD"}) =>
        /\ pc = "done"
        /\ Failed
        /\ IsHttpError(FailureOf)
        /\ FailureOf.status = 405
        /\ ops = <<>>

C18_Witness ==
    /\ pc = "done" /\ entry = "serveDir"
    /\ request.method = "POST"
    /\ request.url = <<"a", "", "..b">>
    /\ outcome.kind = "throw"
    /\ outcome.value.status = 405

\* C19: for GET and HEAD, when the path handed to serveFile holds a
\* directory or nothing, serveFile fails with an HttpError of status 404 and
\* with no other failure.
C19_NotAFileIs404 ==
    (/\ pc = "done" /\ entry = "serveFile"
     /\ request.method \in {"GET", "HEAD"}
     /\ storage.kind \in {"directory", "missing"}) =>
        /\ Failed
        /\ IsHttpError(FailureOf)
        /\ FailureOf.status = 404

\* C20: for GET and HEAD, serveDir answers a path that normalisation changes
\* with a 308 redirect to the normalised path and reads no file; it answers
\* a normalised path that ends with a separator with a 308 redirect to the
\* path without that separator; it goes to the file system only for a
\* normalised path without a trailing separator.
C20_RedirectsBeforeContent ==
    (entry = "serveDir" /\ request # None /\ request.method \in {"GET", "HEAD"}) =>
        LET path == Pathname(request.url)
            trimmed == SubSeq(path, 1, Len(path) - 1)
        IN  /\ (pc = "done" /\ normalize(path) # path) =>
                  /\ outcome = Return(Redirect(normalize(path)))
                  /\ ops = <<>>
            /\ (pc = "done" /\ normalize(path) = path /\ path[Len(path)] = "") =>
                  /\ outcome = Return(Redirect(trimmed))
                  /\ ops = <<>>
            /\ (ops # <<>> \/ filePath # <<>>) =>
                  normalize(path) = path /\ path[Len(path)] # ""

\* A call of serveFile, direct or through serveDir, ended with a response
FileResponded ==
    /\ pc = "done" /\ entry \in {"serveFile", "serveDir"}
    /\ outcome.kind = "promise" /\ outcome.value.state = "fulfilled"

\* The response of that call
FileResponse == outcome.value.value

\* C21 as stated: without If-None-Match and with If-Modified-Since T,
\* serveFile answers 304 when mtime <= T + 1000 ms, the boundary included,
\* and 200 when the modification time is newer than that.
C21_BoundaryIncluded ==
    (/\ FileResponded
     /\ request.ifNoneMatch = Null
     /\ request.ifModifiedSince # Null
     /\ fileInfo.mtime # Null) =>
        /\ fileInfo.mtime.ms <= request.ifModifiedSince.ms + 1000 =>
              FileResponse.status = 304
        /\ fileInfo.mtime.ms > request.ifModifiedSince.ms + 1000 =>
              FileResponse.status = 200

\* C21: without If-None-Match and with If-Modified-Since T, serveFile
\* answers a regular file with 304 when its modification time is known and
\* earlier than T + 1000 ms, and with 200 when the modification time is
\* T + 1000 ms or later, or is not known.
C21_BoundaryExcluded ==
    (/\ FileResponded
     /\ request.ifNoneMatch = Null
     /\ request.ifModifiedSince # Null) =>
        IF fileInfo.mtime # Null
             /\ fileInfo.mtime.ms < request.ifModifiedSince.ms + 1000
        THEN FileResponse.status = 304
        ELSE FileResponse.status = 200

C21_Witness ==
    /\ FileResponded
    /\ request.ifNoneMatch = Null
    /\ request.ifModifiedSince = Date(1000)
    /\ fileInfo.mtime = Date(2000)
    /\ FileResponse.status = 200

\* C22: the ETag goes before Last-Modified: when the request has an
\* If-None-Match that does not name the ETag of the file, serveFile answers
\* 200, also when an If-Modified-Since at or after the modification time
\* of the file is present.
C22_ETagPrecedence ==
    (/\ FileResponded
     /\ request.ifNoneMatch \notin {Null, Star}
     /\ FileResponse.headers.etag \notin request.ifNoneMatch.tags) =>
        FileResponse.status = 200

C22_Witness ==
    /\ FileResponded
    /\ request.ifNoneMatch \notin {Null, Star}
    /\ FileResponse.headers.etag # Undefined
    /\ FileResponse.headers.etag \notin request.ifNoneMatch.tags
    /\ request.ifModifiedSince = Date(2000)
    /\ fileInfo.mtime = Date(1000)
    /\ FileResponse.status = 200

\* C23: a request with neither If-None-Match nor If-Modified-Since is never
\* answered 304, whatever the ETag and the modification time of the file,
\* and also when the file has neither.
C23_NoValidatorsNo304 ==
    (/\ FileResponded
     /\ request.ifNoneMatch = Null
     /\ request.ifModifiedSince = Null) =>
        FileResponse.status = 200

C23_Witness ==
    /\ FileResponded /\ entry = "serveFile"
    /\ request.ifNoneMatch = Null
    /\ request.ifModifiedSince = Null
    /\ fileInfo.mtime # Null
    /\ FileResponse.status = 200

\* C24: every response of serveFile, 200 to GET, 200 to HEAD and 304, has
\* Accept-Ranges: none and the size of the file as Content-Length, has
\* Last-Modified exactly when the modification time is known and ETag
\* exactly when a tag can be computed; the headers are the same whatever
\* the not-modified decision.
C24_Headers ==
    FileResponded =>
        /\ FileResponse.status \in {200, 304}
        /\ FileResponse.headers.acceptRanges = "none"
        /\ FileResponse.headers.contentLength = storage.size
        /\ IF storage.mtime = Null
           THEN /\ FileResponse.headers.lastModified = Undefined
                /\ FileResponse.headers.etag = Undefined
           ELSE /\ FileResponse.headers.lastModified =
                      Date((storage.mtime.ms \div 1000) * 1000)
                /\ FileResponse.headers.etag # Undefined
                /\ FileResponse.headers.etag.size = storage.size
                /\ FileResponse.headers.etag.digest = storage.mtime.ms

C24_Witness ==
    /\ FileResponded
    /\ FileResponse.status = 304
    /\ storage.size = 42
    /\ storage.mtime = Date(1500)
    /\ FileResponse.headers.contentLength = 42
    /\ FileResponse.headers.lastModified = Date(1000)

Redirected ==
    /\ pc = "done" /\ entry = "serveDir"
    /\ outcome.kind = "return"
    /\ outcome.value.status = 308

\* C27: for GET and HEAD, every 308 redirect of serveDir points at a URL
\* other than the one requested, so that a client that follows the
\* redirects of serveDir comes to a file response or an error after
\* finitely many of them; this holds for the root path "/" too.
C27_RedirectElsewhere ==
    Redirected => outcome.value.headers.location # Pathname(request.url)

\* C28: a path that serveDir hands to serveFile, and so every path that is
\* stat-ed or opened, lies inside rootFilePath, however the path of the
\* request is written: repeated separators, dot segments, percent-encoded
\* dots.
C28_InsideRoot ==
    (entry = "serveDir" /\ (filePath # <<>> \/ ops # <<>>)) =>
        LET inside(path) ==
                /\ Len(path) > Len(RootFilePath)
                /\ SubSeq(path, 1, Len(RootFilePath)) = RootFilePath
                /\ \A k \in 1..Len(path) : path[k] \notin {"..", ".", ""}
        IN  /\ inside(filePath)
            /\ \A k \in 1..Len(ops) : inside(ops[k].path)

C28_Witness ==
    /\ pc = "done" /\ entry = "serveDir"
    /\ request.url = <<"%2e%2e", "..", "a">>
    /\ ops = << [op |-> "stat", path |-> <<"srv", "a">>],
                [op |-> "open", path |-> <<"srv", "a">>] >>

\* C29: serveDir fails with 403 only when a segment of the normalised
\* relative path is exactly "..": a path whose segments only begin with two
\* dots, such as /..b or /a/..b, is not rejected and goes to serveFile.
C29_OnlyExactDotDot ==
    (/\ pc = "done" /\ entry = "serveDir"
     /\ request.method \in {"GET", "HEAD"}
     /\ Failed
     /\ IsHttpError(FailureOf)
     /\ FailureOf.status = 403) =>
        \E k \in 1..Len(normalize(Pathname(request.url))) :
            normalize(Pathname(request.url))[k] = ".."

\* A finished dispatch failed with an HttpError of the given status
FailedWith(status) ==
    /\ pc = "done"
    /\ Failed
    /\ IsHttpError(FailureOf)
    /\ FailureOf.status = status

\* C30 as stated: in every dispatch at most one handler is invoked, at most
\* once, and only after a route has matched and its method resolution has
\* succeeded; when dispatch fails with 404 or 405 no handler of any route
\* has been invoked, and handlers of routes other than the first matching
\* one are never invoked.
C30_NoHandlerOnFailure ==
    /\ Len(calls) <= 1
    /\ (request # None /\ calls # <<>>) =>
            /\ Winner # 0
            /\ calls[1].fn.route \in {0, Winner}
    /\ (FailedWith(404) \/ FailedWith(405)) => calls = <<>>

\* C30, amended: in every dispatch at most one function is called, at most
\* once, and only after a route has matched and the lookup of its handler
\* has given a value to call: the function called is what the first matching
\* route gives for the method, never a handler of another route; when
\* dispatch itself raises the 404 or the 405, with the request as cause, no
\* handler of any route has been invoked.  A handler that is invoked may
\* itself fail with a 404 or a 405.
C30_AtMostOneHandler ==
    /\ Len(calls) <= 1
    /\ (request # None /\ calls # <<>>) =>
            /\ Winner # 0
            /\ Winner \in consulted
            /\ calls[1].fn.type = "function"
            /\ calls[1].fn.route \in {0, Winner}
            /\ calls[1].fn.route = 0 =>
                    /\ entry = "route"
                    /\ calls[1].fn = handlersGet(routes[Winner], Winner, request.method)
            /\ calls[1].fn.route = Winner =>
                    /\ HasHandlerFor(routes[Winner], request.method)
                    /\ calls[1].fn = DeclaredHandler(Winner, request.method)
    /\ (/\ pc = "done"
        /\ Failed
        /\ \/ IsRequestError(FailureOf, 404, "Not Found")
           \/ IsRequestError(FailureOf, 405, "Method Not Allowed")) =>
            calls = <<>>

\* Two routes match and both have a handler for the method: the handler of
\* the first has been invoked, once
C30_Witness ==
    /\ pc = "done"
    /\ Len(routes) = 2
    /\ PathMatches(routes[1].pattern, request.url)
    /\ PathMatches(routes[2].pattern, request.url)
    /\ HasHandlerFor(routes[1], request.method)
    /\ HasHandlerFor(routes[2], request.method)
    /\ calls = << [fn |-> DeclaredHandler(1, request.method),
                  args |-> calls[1].args] >>

\* What dispatching the request alone gives: the calls made and, the
\* handler having left with exit and its promise having settled as settled,
\* the outcome
Alone(table, req, e, exit, settled) ==
    LET w == FindFirst(table, req.url)
        error(status) == HttpError(status, Undefined, CauseOnly(req))
        none(out) == [calls |-> <<>>, outcome |-> out]
        call(fn, args, out) ==
            [calls |-> << [fn |-> fn, args |-> args] >>, outcome |-> out]
    IN  IF e = "route" THEN
            IF w = 0 THEN none(Throw(error(404)))
            ELSE LET handler == resolve(table[w], w, req.method)
                     args == HandlerArgs(req, exec(table[w].pattern, req.url))
                 IN  IF ~Truthy(handler) THEN none(Throw(error(405)))
                     ELSE IF handler = ObjectPrototype
                     THEN none(Throw(OtherError("TypeError", "handler is not a function")))
                     ELSE IF handler = ObjectConstructor
                     THEN call(handler, args, Return(req))
                     ELSE call(handler, args, RouteExit(exit))
        ELSE IF e = "createHandler" THEN
            IF w = 0 THEN none(Throw(error(404)))
            ELSE LET handler == MapGet(table[w], w, req.method)
                 IN  IF ~Truthy(handler) THEN none(Throw(error(405)))
                     ELSE call(handler, <<req>>, exit)
        ELSE
            IF w = 0 THEN none(AsyncResult(Rejected(error(404))))
            ELSE IF req.method # MethodOf(table[w])
            THEN none(AsyncResult(Rejected(error(405))))
            ELSE call(UserHandler(w, MethodOf(table[w])), <<req>>,
                      IF exit.kind = "throw"
                      THEN AsyncResult(Rejected(Catch(exit.value)))
                      ELSE IF settled = None
                      THEN AsyncResult(Fulfilled(exit.value))
                      ELSE IF settled.state = "fulfilled"
                      THEN AsyncResult(Fulfilled(settled.value))
                      ELSE AsyncResult(Rejected(Catch(settled.value))))

\* The dispatches in flight: the one in progress and those that wait
InFlight ==
    (IF request = None THEN {} ELSE {Frame})
        \cup { suspended[k] : k \in 1..Len(suspended) }

\* The dispatch has done what it would do alone
AsAlone(f) ==
    LET alone == Alone(routes, f.request, f.entry, f.handlerExit, f.promise)
    IN  /\ f.pc = "scan" => f.calls = <<>>
        /\ f.pc \in {"awaiting", "resuming", "done"} => f.calls = alone.calls
        /\ f.pc = "done" => f.outcome = alone.outcome

\* C26: dispatch never changes the route table, and with any number of
\* requests in flight, interleaved in any way at the promises their handlers
\* wait for, each request has the outcome (handler invoked, response, or
\* the 404 or 405 with its own request as cause) of being dispatched alone.
C26_Isolation ==
    /\ [](\A f \in InFlight : AsAlone(f))
    /\ [][routes' = routes]_vars

\* Two requests that differ are in flight: the asynchronous handler of one
\* has been invoked and has settled, while the dispatch of the other, whose
\* handler has been invoked too, still waits
C26_Witness ==
    /\ pc = "done"
    /\ Len(suspended) = 1
    /\ suspended[1].request # request
    /\ suspended[1].pc = "awaiting"
    /\ calls # <<>>
    /\ suspended[1].calls # <<>>
    /\ handlerExit = Return(HandlerPromise)

====
